---------------------------- MODULE Spec2Model ----------------------------
(***************************************************************************)
(* A model of system_logger.c: the directory-change detection of the       *)
(* logging daemon (the inotify watcher of check_directory_changes and the  *)
(* stat fallback of check_directory_changes_periodic) inside the main      *)
(* loop, with the kernel's inotify queue and the file system's             *)
(* modification times as the environment.                                  *)
(*                                                                         *)
(* Bytes are 0..255, buffers are sequences of bytes addressed from 0 as    *)
(* the C code addresses them, times are seconds as time(NULL) and          *)
(* st_mtime give them.                                                     *)
(***************************************************************************)
EXTENDS Integers, Sequences, FiniteSets, TLC

(***************************************************************************)
(* Program constants.                                                      *)
(***************************************************************************)
LOG_INTERVAL == 5
NUM_WATCH_DIRS == 3
BUFFER_SIZE == 4096
EVENT_HEADER_SIZE == 16
MSG_SIZE == 1024
POLL_PERIOD == 30
IN_MODIFY == 2
IN_MOVED_FROM == 64
IN_MOVED_TO == 128
IN_CREATE == 256
IN_DELETE == 512
IN_IGNORED == 32768
IN_Q_OVERFLOW == 16384
IN_ISDIR == 1073741824
LOG_INFO == 6

\* watch_dirs[].path, in the order of the static table.
WatchPaths == <<"/etc", "/var/log", "/tmp">>

Dirs == 1..NUM_WATCH_DIRS

\* The directory the literal "/var/log" of the fallback names.
LogDirIndex == CHOOSE d \in Dirs : WatchPaths[d] = "/var/log"

TmpDirIndex == CHOOSE d \in Dirs : WatchPaths[d] = "/tmp"

\* The bytes of the literal "system_logger.log".
LogFileName ==
    <<115, 121, 115, 116, 101, 109, 95, 108, 111, 103, 103, 101, 114, 46, 108, 111, 103>>

(***************************************************************************)
(* Characters: what %s prints for a byte.  The printable ASCII range is    *)
(* kept (the backquote excepted, which a TLA+ string cannot hold); any     *)
(* other byte prints as "?" here.                                          *)
(***************************************************************************)
Printable ==
    <<" ", "!", "\"", "#", "$", "%", "&", "'", "(", ")", "*", "+", ",", "-", ".", "/",
      "0", "1", "2", "3", "4", "5", "6", "7", "8", "9", ":", ";", "<", "=", ">", "?",
      "@", "A", "B", "C", "D", "E", "F", "G", "H", "I", "J", "K", "L", "M", "N", "O",
      "P", "Q", "R", "S", "T", "U", "V", "W", "X", "Y", "Z", "[", "\\", "]", "^", "_",
      "?", "a", "b", "c", "d", "e", "f", "g", "h", "i", "j", "k", "l", "m", "n", "o",
      "p", "q", "r", "s", "t", "u", "v", "w", "x", "y", "z", "{", "|", "}", "~">>

Chr(b) == IF b >= 32 /\ b <= 126 THEN Printable[b - 31] ELSE "?"

\* The characters of the bytes, in order (halving keeps the evaluation of a
\* long name shallow).
StrOf(bytes) ==
    LET Str[b \in Seq(Int)] ==
            IF b = <<>> THEN ""
            ELSE IF Len(b) = 1 THEN Chr(b[1])
            ELSE Str[SubSeq(b, 1, Len(b) \div 2)]
                     \o Str[SubSeq(b, (Len(b) \div 2) + 1, Len(b))]
    IN  Str[bytes]

\* snprintf(msg, sizeof(msg), ...): at most sizeof(msg) - 1 characters are kept.
Snprintf(size, text) ==
    IF Len(text) < size THEN text ELSE SubSeq(text, 1, size - 1)

(***************************************************************************)
(* Memory.  Byte(mem, k) is mem[k] of the C code (k from 0).  Memory past  *)
(* the modelled bytes reads as 0.                                          *)
(***************************************************************************)
Byte(mem, k) == IF k >= 0 /\ k < Len(mem) THEN mem[k + 1] ELSE 0

\* A little-endian 32-bit signed field (int wd).
S32(mem, k) ==
    LET b3 == Byte(mem, k + 3)
        hi == IF b3 >= 128 THEN b3 - 256 ELSE b3
    IN  hi * 16777216 + Byte(mem, k + 2) * 65536 + Byte(mem, k + 1) * 256 + Byte(mem, k)

\* A little-endian 32-bit unsigned field (uint32_t mask, len); the inputs of
\* the model keep bit 31 clear, so that the value is below 2^31.
U32(mem, k) ==
    Byte(mem, k + 3) * 16777216 + Byte(mem, k + 2) * 65536
        + Byte(mem, k + 1) * 256 + Byte(mem, k)

\* The C string at mem[k]: the bytes before the first NUL.
CStr(mem, k) ==
    LET n == CHOOSE n \in 0..Len(mem) :
                 /\ Byte(mem, k + n) = 0
                 /\ \A m \in 0..(n - 1) : Byte(mem, k + m) # 0
    IN  [m \in 1..n |-> Byte(mem, k + m - 1)]

\* strcmp(mem + k, lit): the offset of the last byte of mem + k that strcmp
\* reads (the first one that differs from lit, or the closing NUL).
RECURSIVE StrcmpReach(_, _, _, _)
StrcmpReach(mem, k, lit, n) ==
    LET a == Byte(mem, k + n)
        b == IF n < Len(lit) THEN lit[n + 1] ELSE 0
    IN  IF a # b \/ a = 0 THEN n ELSE StrcmpReach(mem, k, lit, n + 1)

Strcmp0(mem, k, lit) == CStr(mem, k) = lit

\* mask & bit, for a single-bit constant.
HasBit(mask, bit) == (mask \div bit) % 2 = 1

(***************************************************************************)
(* The kernel's side of read(inotify_fd): struct inotify_event records     *)
(* {int wd; uint32_t mask; uint32_t cookie; uint32_t len; char name[]},    *)
(* written back to back, the name NUL-padded to len, len a multiple of the *)
(* header size and 0 when the event names no entry.                        *)
(***************************************************************************)
LE32(n) ==
    <<n % 256, (n \div 256) % 256, (n \div 65536) % 256, (n \div 16777216) % 256>>

\* Two's complement of a negative int: the bytes of n + 2^31 with bit 31 set.
LE32S(n) ==
    IF n >= 0 THEN LE32(n)
    ELSE LET m == (n + 2147483647) + 1
         IN  <<m % 256, (m \div 256) % 256, (m \div 65536) % 256,
               ((m \div 16777216) % 256) + 128>>

Zeros(n) == [k \in 1..n |-> 0]

NameLen(name) ==
    IF name = <<>> THEN 0
    ELSE EVENT_HEADER_SIZE * ((Len(name) + EVENT_HEADER_SIZE) \div EVENT_HEADER_SIZE)

EncodeEvent(e) ==
    LE32S(e.wd) \o LE32(e.mask) \o LE32(e.cookie) \o LE32(NameLen(e.name))
        \o e.name \o Zeros(NameLen(e.name) - Len(e.name))

RECURSIVE EncodeAll(_)
EncodeAll(evs) ==
    IF evs = <<>> THEN <<>> ELSE EncodeEvent(Head(evs)) \o EncodeAll(Tail(evs))

\* read() returns whole events only: the longest prefix of the queue that
\* fits in the caller's buffer.
RECURSIVE FitCount(_, _)
FitCount(evs, room) ==
    IF evs = <<>> THEN 0
    ELSE LET size == EVENT_HEADER_SIZE + NameLen(Head(evs).name)
         IN  IF size > room THEN 0 ELSE 1 + FitCount(Tail(evs), room - size)

(***************************************************************************)
(* check_directory_changes: the decode loop.                               *)
(***************************************************************************)
\* for (j = 0; j < NUM_WATCH_DIRS; j++) if (watch_dirs[j].wd == event->wd):
\* the first entry of the table with the event's wd, 0 when there is none.
FindWatch(tab, wd) ==
    IF \E j \in Dirs : tab[j].wd = wd
    THEN CHOOSE j \in Dirs : tab[j].wd = wd /\ \A k \in 1..(j - 1) : tab[k].wd # wd
    ELSE 0

\* if (event->len > 0 && strcmp(event->name, "system_logger.log") == 0) break;
IsOwnLogNever(mem, i, len) == FALSE

IsOwnLog(mem, i, len) ==
    len > 0 /\ Strcmp0(mem, i + EVENT_HEADER_SIZE, LogFileName)

\* The if / else if chain over event->mask, "modification" being the default.
EventTypeModifyFirst(mask) ==
    IF HasBit(mask, IN_MODIFY) THEN "modification"
    ELSE IF HasBit(mask, IN_CREATE) THEN "creation"
    ELSE IF HasBit(mask, IN_DELETE) THEN "deletion"
    ELSE IF HasBit(mask, IN_MOVED_FROM) THEN "moved from"
    ELSE IF HasBit(mask, IN_MOVED_TO) THEN "moved to"
    ELSE "modification"

EventType(mask) ==
    IF HasBit(mask, IN_CREATE) THEN "creation"
    ELSE IF HasBit(mask, IN_DELETE) THEN "deletion"
    ELSE IF HasBit(mask, IN_MODIFY) THEN "modification"
    ELSE IF HasBit(mask, IN_MOVED_FROM) THEN "moved from"
    ELSE IF HasBit(mask, IN_MOVED_TO) THEN "moved to"
    ELSE "modification"

EventMessage(j, mask, len, name) ==
    IF len > 0
    THEN Snprintf(MSG_SIZE,
             WatchPaths[j] \o ": " \o EventType(mask) \o " of file " \o StrOf(name))
    ELSE Snprintf(MSG_SIZE, WatchPaths[j] \o ": " \o EventType(mask))

\* log_message(username, message, priority), as the record it hands to the sinks.
LogRecord(priority, message) == [priority |-> priority, message |-> message]

\* One pass of the while loop at cursor i: the fields of *event as the code
\* sees them, the entry it matched (0: none), the records it logged, and the
\* highest buffer index it read.
HandleEvent(tab, mem, i) ==
    LET wd == S32(mem, i)
        mask == U32(mem, i + 4)
        len == U32(mem, i + 12)
        name == IF len > 0 THEN CStr(mem, i + EVENT_HEADER_SIZE) ELSE <<>>
        j == FindWatch(tab, wd)
        own == j # 0 /\ IsOwnLog(mem, i, len)
        logs == j # 0 /\ ~own
        cmpEnd == i + EVENT_HEADER_SIZE
                    + StrcmpReach(mem, i + EVENT_HEADER_SIZE, LogFileName, 0)
        fmtEnd == i + EVENT_HEADER_SIZE + Len(name)
        hdrEnd == i + EVENT_HEADER_SIZE - 1
    IN  [at |-> i, wd |-> wd, mask |-> mask, len |-> len, name |-> name,
         target |-> j,
         out |-> IF logs THEN <<LogRecord(LOG_INFO, EventMessage(j, mask, len, name))>>
                 ELSE <<>>,
         reach |-> IF j # 0 /\ len > 0
                   THEN (IF logs /\ fmtEnd > cmpEnd THEN fmtEnd ELSE cmpEnd)
                   ELSE hdrEnd]

\* i += sizeof(struct inotify_event) + event->len, in int.
NextCursorHeaderOnly(i, len) == i + EVENT_HEADER_SIZE

NextCursor(i, len) ==
    IF len > (2147483647 - EVENT_HEADER_SIZE) - i
    THEN ((len - 2147483647) + ((i + EVENT_HEADER_SIZE) - 2147483647)) - 2
    ELSE i + EVENT_HEADER_SIZE + len

\* while (i < length) { ... }: Pass[c] is the passes from cursor c on, ev
\* the pass at c.
DecodeLoop(tab, mem, length, i) ==
    LET Pass[c \in Int] ==
            IF c < length
            THEN CHOOSE passes \in {<<ev>> \o Pass[NextCursor(c, ev.len)] :
                                       ev \in {HandleEvent(tab, mem, c)}} : TRUE
            ELSE <<>>
    IN  Pass[i]

MaxReach(evs) ==
    IF evs = <<>> THEN 0 - 1
    ELSE CHOOSE r \in {evs[k].reach : k \in 1..Len(evs)} :
             \A k \in 1..Len(evs) : evs[k].reach <= r

RECURSIVE AllOut(_)
AllOut(evs) == IF evs = <<>> THEN <<>> ELSE Head(evs).out \o AllOut(Tail(evs))

\* What one call did: whether read() ran, the events the kernel had written
\* (sent), the length read() returned, the passes of the loop (events), the
\* final cursor and the highest buffer index read.
NoRead == [ran |-> FALSE, sent |-> <<>>, length |-> 0, events |-> <<>>,
           cursor |-> 0, reach |-> 0 - 1]

\* The body of if (length > 0): mem holds the length bytes read() wrote,
\* followed by what the rest of buffer[] held before.
Drained(tab, sent, mem, length) ==
    CHOOSE res \in
        {[ran |-> TRUE, sent |-> sent, length |-> length, events |-> evs,
          cursor |-> IF evs = <<>> THEN 0
                     ELSE NextCursor(evs[Len(evs)].at, evs[Len(evs)].len),
          reach |-> MaxReach(evs)] :
            evs \in {DecodeLoop(tab, mem, length, 0)}} : TRUE

(***************************************************************************)
(* check_directory_changes_periodic.                                       *)
(***************************************************************************)
\* if (now - last_check < 30) return;
RateLimitedInclusive(t, last) == t - last <= POLL_PERIOD

RateLimited(t, last) == t - last < POLL_PERIOD

\* stat() == 0: a time of -1 stands for a path stat() fails on.
StatOk(t) == t >= 0

\* stat(log_path, &log_st) == 0 && st.st_mtime == log_st.st_mtime
\*   && watch_dirs[i].last_check > 0, under strcmp(path, "/var/log") == 0.
OwnLogChangeAnyDir(d, entry, st, logst) ==
    StatOk(logst) /\ st = logst /\ entry.last_check > 0

OwnLogChange(d, entry, st, logst) ==
    d = LogDirIndex /\ StatOk(logst) /\ st = logst /\ entry.last_check > 0

\* watch_dirs[i].last_check > 0 && st.st_mtime > watch_dirs[i].last_check
ChangedNotStrict(entry, st) == entry.last_check > 0 /\ st >= entry.last_check

Changed(entry, st) == entry.last_check > 0 /\ st > entry.last_check

PollMessage(d) ==
    Snprintf(MSG_SIZE, "Changes detected in directory: " \o WatchPaths[d])

\* One pass of the for loop: the entry's new last_check and the records logged.
\* st and logst are what stat() gives for the directory and for the log file.
PollDirLazy(d, entry, st, logst) ==
    IF ~StatOk(st) THEN [last_check |-> entry.last_check, out |-> <<>>]
    ELSE IF OwnLogChange(d, entry, st, logst) THEN [last_check |-> st, out |-> <<>>]
    ELSE IF Changed(entry, st)
         THEN [last_check |-> st, out |-> <<LogRecord(LOG_INFO, PollMessage(d))>>]
         ELSE [last_check |-> entry.last_check, out |-> <<>>]

PollDir(d, entry, st, logst) ==
    IF ~StatOk(st) THEN [last_check |-> entry.last_check, out |-> <<>>]
    ELSE IF OwnLogChange(d, entry, st, logst) THEN [last_check |-> st, out |-> <<>>]
    ELSE [last_check |-> st,
          out |-> IF Changed(entry, st) THEN <<LogRecord(LOG_INFO, PollMessage(d))>>
                  ELSE <<>>]

\* The for loop over the table, entries 1..n done.  A record logged for an
\* earlier entry is a write to the log file: the log file's modification time
\* is the current time when a later pass stats it.
RECURSIVE PollLoop(_, _, _, _, _)
PollLoop(n, tab, t, mt, logmt) ==
    IF n = 0 THEN [tab |-> tab, out |-> [d \in Dirs |-> <<>>], logmt |-> logmt]
    ELSE LET prev == PollLoop(n - 1, tab, t, mt, logmt)
             step == PollDir(n, prev.tab[n], mt[n], prev.logmt)
         IN  [tab |-> [prev.tab EXCEPT ![n].last_check = step.last_check],
              out |-> [prev.out EXCEPT ![n] = step.out],
              logmt |-> IF step.out # <<>> /\ StatOk(prev.logmt) THEN t ELSE prev.logmt]

(***************************************************************************)
(* Text.  A C string of the configuration file or of a log line is a TLA+  *)
(* string here; CharAt(s, i) is s[i - 1] of the C code.                    *)
(***************************************************************************)
CharAt(s, i) == SubSeq(s, i, i)

HasPrefix(s, lit) == Len(s) >= Len(lit) /\ SubSeq(s, 1, Len(lit)) = lit

Digits == <<"0", "1", "2", "3", "4", "5", "6", "7", "8", "9">>

IsDigit(c) == \E d \in 1..10 : Digits[d] = c

DigitVal(c) == (CHOOSE d \in 1..10 : Digits[d] = c) - 1

\* %d of a non-negative int.
RECURSIVE Dec(_)
Dec(n) == IF n < 10 THEN Digits[n + 1] ELSE Dec(n \div 10) \o Digits[(n % 10) + 1]

\* %02d.
Dec2(n) == IF n < 10 THEN "0" \o Dec(n) ELSE Dec(n)

(***************************************************************************)
(* atoi.  The digits are accumulated in 32 bits, kept as two 16-bit halves *)
(* (hi, lo); big records that the number passed INT_MAX.  For such a       *)
(* number atoi is undefined: where long is 64 bits the C library returns   *)
(* strtol's long cut to its low 32 bits, where long is 32 bits it returns  *)
(* the saturated LONG_MAX / LONG_MIN.  Atoi is the set of these outcomes.  *)
(***************************************************************************)
IsSpace(c) == c \in {" ", "\t", "\n", "\r"}

RECURSIVE SkipSpaces(_, _)
SkipSpaces(s, p) ==
    IF p <= Len(s) /\ IsSpace(CharAt(s, p)) THEN SkipSpaces(s, p + 1) ELSE p

RECURSIVE Accumulate(_, _, _)
Accumulate(s, p, acc) ==
    IF p <= Len(s) /\ IsDigit(CharAt(s, p))
    THEN LET lo == acc.lo * 10 + DigitVal(CharAt(s, p))
             hi == acc.hi * 10 + (lo \div 65536)
         IN  Accumulate(s, p + 1,
                 [hi |-> hi % 65536, lo |-> lo % 65536,
                  big |-> acc.big \/ hi >= 32768])
    ELSE acc

\* The int with the 32 bits (hi, lo).
Signed32(acc) ==
    (IF acc.hi >= 32768 THEN acc.hi - 65536 ELSE acc.hi) * 65536 + acc.lo

Atoi(s) ==
    LET p == SkipSpaces(s, 1)
        sign == IF p <= Len(s) /\ CharAt(s, p) \in {"-", "+"} THEN CharAt(s, p) ELSE ""
        acc == Accumulate(s, IF sign = "" THEN p ELSE p + 1,
                          [hi |-> 0, lo |-> 0, big |-> FALSE])
        cut == IF sign = "-" THEN 0 - Signed32(acc) ELSE Signed32(acc)
        sat == IF sign = "-" THEN (0 - 2147483647) - 1 ELSE 2147483647
    IN  IF acc.big THEN {cut, sat} ELSE {cut}

(***************************************************************************)
(* read_config.  A configuration file is the sequence of the strings fgets *)
(* returns for it (each line with its newline); cfg is the pair            *)
(* (log_interval, use_syslog).                                             *)
(***************************************************************************)
\* if (len > 0 && line[len - 1] == '\n') line[--len] = '\0';
StripNewline(line) ==
    IF Len(line) > 0 /\ CharAt(line, Len(line)) = "\n"
    THEN SubSeq(line, 1, Len(line) - 1) ELSE line


\* if (interval > 0 && interval <= 3600) log_interval = interval;
Accepted(interval) == interval > 0 /\ interval <= 3600

\* The body of the while loop for one line: the configurations it may leave.
ConfigLine(line, cfg) ==
    LET l == StripNewline(line)
    IN  IF Len(l) = 0 \/ CharAt(l, 1) = "#" THEN {cfg}
        ELSE IF HasPrefix(l, "LOG_INTERVAL=")
        THEN {IF Accepted(v) THEN [cfg EXCEPT !.interval = v] ELSE cfg :
                 v \in Atoi(SubSeq(l, 14, Len(l)))}
        ELSE IF HasPrefix(l, "USE_SYSLOG=")
        THEN {[cfg EXCEPT !.syslog = (v # 0)] : v \in Atoi(SubSeq(l, 12, Len(l)))}
        ELSE {cfg}

RECURSIVE ReadConfig(_, _)
ReadConfig(file, cfg) ==
    IF file = <<>> THEN {cfg}
    ELSE UNION {ReadConfig(Tail(file), c) : c \in ConfigLine(Head(file), cfg)}

(***************************************************************************)
(* log_message.  The time stamp is strftime("%Y-%m-%d %H:%M:%S") of        *)
(* localtime in UTC, for a time within the first day of the epoch.         *)
(***************************************************************************)
LOG_ERR == 3
LOG_WARNING == 4
LOG_DEBUG == 7

TimeStr(t) ==
    "1970-01-01 " \o Dec2(t \div 3600) \o ":" \o Dec2((t \div 60) % 60) \o ":" \o Dec2(t % 60)

LevelStr(priority) ==
    IF priority = LOG_WARNING THEN "WARNING"
    ELSE IF priority = LOG_ERR THEN "ERROR"
    ELSE IF priority = LOG_DEBUG THEN "DEBUG"
    ELSE "INFO"

\* What one call hands to each sink: the line written to the log file (none
\* when log_file is NULL) and the entry given to syslog (none when use_syslog
\* is 0).
LogMessageFileFirst(open, syslog, t, username, rec) ==
    [file |-> IF open
              THEN <<"[" \o TimeStr(t) \o "] [" \o LevelStr(rec.priority) \o "] ["
                        \o username \o "] " \o rec.message \o "\n">>
              ELSE <<>>,
     sys |-> IF open /\ syslog
             THEN <<[priority |-> rec.priority,
                     text |-> "[" \o username \o "] " \o rec.message]>>
             ELSE <<>>]

LogMessage(open, syslog, t, username, rec) ==
    [file |-> IF open
              THEN <<"[" \o TimeStr(t) \o "] [" \o LevelStr(rec.priority) \o "] ["
                        \o username \o "] " \o rec.message \o "\n">>
              ELSE <<>>,
     sys |-> IF syslog
             THEN <<[priority |-> rec.priority,
                     text |-> "[" \o username \o "] " \o rec.message]>>
             ELSE <<>>]

\* A sequence of calls, in order: what reaches the sink ("file" or "sys").
RECURSIVE LogAll(_, _, _, _, _, _)
LogAll(sink, open, syslog, t, username, recs) ==
    IF recs = <<>> THEN <<>>
    ELSE LogMessage(open, syslog, t, username, Head(recs))[sink]
             \o LogAll(sink, open, syslog, t, username, Tail(recs))

(***************************************************************************)
(* Bounds of the model.                                                    *)
(***************************************************************************)
\* The clock at startup is one of two readings of time(NULL).
EarlyStart == 10
LateStart == 100
\* The modification time the watched directories and the log file start with.
OldMtime == 1
\* Passes of the main loop.
MaxCycles == 3
\* Changes made to the watched directories by other processes.
MaxChanges == 1
\* Records in an injected buffer.
MaxEvents == 2

StartTimes == {EarlyStart, LateStart}

MaxLines == 2

\* A line of a configuration file: the string fgets returns for it, and the
\* interval it states if it is a LOG_INTERVAL line stating one within
\* (0, 3600], else 0.  The program reads the text only.
Line(text, stated) == [text |-> text, stated |-> stated]

Texts(file) == [k \in 1..Len(file) |-> file[k].text]

\* The configuration files of the main loop's runs: none, an interval one
\* second below the fallback's period, and the period itself with the
\* system log switched off.
ConfigFiles ==
    {<<>>,
     <<Line("LOG_INTERVAL=29\n", 29)>>,
     <<Line("LOG_INTERVAL=30\n", 30), Line("USE_SYSLOG=0\n", 0)>>}

\* The lines of the configuration files read_config is run on.
ConfigLines ==
    {Line("LOG_INTERVAL=0\n", 0), Line("LOG_INTERVAL=1\n", 1),
     Line("LOG_INTERVAL=29\n", 29), Line("LOG_INTERVAL=3600\n", 3600),
     Line("LOG_INTERVAL=3601\n", 0), Line("LOG_INTERVAL=9999\n", 0),
     Line("LOG_INTERVAL=-5\n", 0), Line("LOG_INTERVAL=abc\n", 0),
     Line("LOG_INTERVAL=2147483648\n", 0), Line("LOG_INTERVAL=4294967356\n", 0),
     Line("LOG_INTERVAL=60", 60),
     Line("USE_SYSLOG=0\n", 0), Line("USE_SYSLOG=1\n", 0),
     Line("# LOG_INTERVAL=7\n", 0), Line("\n", 0), Line("INTERVAL=7\n", 0)}

AllConfigFiles == UNION {[1..k -> ConfigLines] : k \in 0..MaxLines}

\* get_username, geteuid: the daemon runs as root.
Username == "root"

\* An entry name other processes use: "foo.txt".
OtherName == <<102, 111, 111, 46, 116, 120, 116>>

VARIABLES
    pc,                   \* where main is: "starting", "opening", "samplers", "watcher",
                          \* "poll", "sleep", or "terminated"
    now,                  \* what time(NULL) returns
    cycle,                \* passes of the main loop completed
    log_interval,         \* static int log_interval
    inotify_fd,           \* static int inotify_fd
    watch_dirs,           \* the wd and last_check of each entry of watch_dirs[]
    periodic_last_check,  \* static time_t last_check of check_directory_changes_periodic
    queue,                \* the kernel's queue of events not yet read
    mtime,                \* st_mtime of each watched directory, -1: stat() fails
    log_mtime,            \* st_mtime of /var/log/system_logger.log, -1: stat() fails
    changes,              \* changes other processes have made
    unreported,           \* directories whose latest change of st_mtime
                          \* check_directory_changes has logged no record for
    seen,                 \* st_mtime of each directory at the fallback's last
                          \* comparison of it, -1: never compared
    polled,               \* whether check_directory_changes_periodic was called before
    watch,                \* what this pass's check_directory_changes did
    poll,                 \* what this pass's check_directory_changes_periodic did
    use_syslog,           \* static int use_syslog
    log_file,             \* whether static FILE *log_file is an open file (not NULL)
    exit_status,          \* the process's exit status, -1: it has not exited
    config,               \* the configuration file read_config read
    startup,              \* what main did before the loop
    sinks,                \* the calls of log_message of the latest step, and
                          \* what they handed to the log file and to syslog
    stop                  \* what signal_handler did

vars == <<pc, now, cycle, log_interval, inotify_fd, watch_dirs, periodic_last_check,
          queue, mtime, log_mtime, changes, unreported, seen, polled, watch, poll,
          use_syslog, log_file, exit_status, config, startup, sinks, stop>>

\* What the loop and the other processes leave alone.
proc == <<use_syslog, log_file, exit_status, config, startup, stop>>

NoPoll == [called |-> FALSE, ran |-> FALSE, first |-> FALSE, at |-> 0, last |-> 0,
           before |-> <<>>, prev |-> <<>>, st |-> <<>>, logst |-> 0, out |-> <<>>]

\* The calls log_message(username, recs[k].message, recs[k].priority) made at
\* time t with the given log_file and use_syslog, and what the sinks got.
Sunk(open, syslog, t, recs) ==
    [calls |-> recs, open |-> open, syslog |-> syslog, at |-> t,
     file |-> LogAll("file", open, syslog, t, Username, recs),
     sys |-> LogAll("sys", open, syslog, t, Username, recs)]

NoCalls == Sunk(FALSE, FALSE, 0, <<>>)

NotStarted == [configured |-> FALSE, opened |-> "untried", inotify |-> FALSE, ok |-> {}, out |-> <<>>]

NotStopped == [taken |-> FALSE, from |-> "", open |-> FALSE, syslog |-> FALSE,
               file |-> <<>>, sys |-> <<>>]

Init ==
    /\ pc = "starting"
    /\ now \in StartTimes
    /\ cycle = 0
    /\ log_interval = LOG_INTERVAL
    /\ inotify_fd = 0 - 1
    /\ watch_dirs = [d \in Dirs |-> [wd |-> 0 - 1, last_check |-> 0]]
    /\ periodic_last_check = 0
    /\ queue = <<>>
    /\ mtime = [d \in Dirs |-> OldMtime]
    /\ log_mtime = OldMtime
    /\ changes = 0
    /\ unreported = {}
    /\ seen = [d \in Dirs |-> 0 - 1]
    /\ polled = FALSE
    /\ watch = NoRead
    /\ poll = NoPoll
    /\ use_syslog = TRUE
    /\ log_file = FALSE
    /\ exit_status = 0 - 1
    /\ config = <<>>
    /\ startup = NotStarted
    /\ sinks = NoCalls
    /\ stop = NotStopped

(***************************************************************************)
(* The kernel, on a write to the log file: an IN_MODIFY event naming it on *)
(* the watch of /var/log, unless the queue already ends with that event.   *)
(***************************************************************************)
Enqueue(q, e) == IF q # <<>> /\ q[Len(q)] = e THEN q ELSE Append(q, e)

Event(wd, mask, name) == [wd |-> wd, mask |-> mask, cookie |-> 0, name |-> name]

AfterLogWrite(q, tab, logmt) ==
    IF tab[LogDirIndex].wd >= 0 /\ StatOk(logmt)
    THEN Enqueue(q, Event(tab[LogDirIndex].wd, IN_MODIFY, LogFileName))
    ELSE q

\* fprintf(log_file, ...) at time t: the log file's st_mtime afterwards.
LogMtimeAfterWrite(logmt, t) == IF StatOk(logmt) THEN t ELSE logmt

(***************************************************************************)
(* init_directory_monitoring: inotify_init() fails, or it succeeds and     *)
(* inotify_add_watch succeeds for the directories of `ok`, which get the   *)
(* kernel's watch descriptors 1, 2, ... in table order.                    *)
(***************************************************************************)
InstalledTable(tab, ok, t) ==
    [d \in Dirs |->
        IF d \in ok
        THEN [wd |-> Cardinality({k \in ok : k <= d}), last_check |-> t]
        ELSE tab[d]]

\* open_log_file's return value, given whether fopen(LOG_FILE, "a") succeeds.
OpenLogFileIgnored(opened) == 0

OpenLogFile(opened) == IF opened THEN 0 ELSE 0 - 1

\* The records main logs before the loop: the warning when
\* init_directory_monitoring returned -1 (strerror: EMFILE), and the banner.
StartupRecordsNoWarning(up, interval) ==
    <<LogRecord(LOG_INFO, "------------------------------"),
      LogRecord(LOG_INFO, "Logging program started"),
      LogRecord(LOG_INFO, "Program is running with root privileges"),
      LogRecord(LOG_INFO, "Logging interval: " \o Dec(interval) \o " seconds")>>

StartupRecords(up, interval) ==
    (IF up THEN <<>>
     ELSE <<LogRecord(LOG_WARNING,
                "Failed to initialize directory monitoring: Too many open files")>>)
    \o StartupRecordsNoWarning(up, interval)

\* main up to read_config, on one of the given configuration files:
\* signal(), openlog (use_syslog is still 1) and read_config.
ReadConfigFrom(files) ==
    /\ pc = "starting"
    /\ \E file \in files :
       \E cfg \in ReadConfig(Texts(file), [interval |-> log_interval,
                                            syslog |-> use_syslog]) :
        /\ config' = file
        /\ log_interval' = cfg.interval
        /\ use_syslog' = cfg.syslog
    /\ startup' = [startup EXCEPT !.configured = TRUE]
    /\ pc' = "opening"
    /\ UNCHANGED <<now, cycle, inotify_fd, watch_dirs, periodic_last_check, queue,
                   mtime, log_mtime, changes, unreported, seen, polled, watch, poll,
                   log_file, exit_status, sinks, stop>>

ReadConfigFile == ReadConfigFrom(ConfigFiles)

\* main from open_log_file to the loop: open_log_file (return 1 when it
\* fails), init_directory_monitoring and the records of the startup banner.
Startup ==
    /\ pc = "opening"
    /\ \E opened \in BOOLEAN :
        /\ log_file' = opened
        /\ IF OpenLogFile(opened) # 0
           THEN /\ pc' = "terminated"
                /\ exit_status' = 1
                /\ startup' = [startup EXCEPT !.opened = "failed"]
                /\ sinks' = NoCalls
                /\ UNCHANGED <<inotify_fd, watch_dirs, log_mtime, queue>>
           ELSE \E up \in BOOLEAN, ok \in SUBSET Dirs :
                LET recs == StartupRecords(up, log_interval)
                IN  /\ (~up) => ok = {}
                    /\ inotify_fd' = IF up THEN 3 ELSE 0 - 1
                    /\ watch_dirs' = InstalledTable(watch_dirs, ok, now)
                    /\ startup' = [configured |-> TRUE,
                                   opened |-> IF opened THEN "yes" ELSE "failed",
                                   inotify |-> up, ok |-> ok, out |-> recs]
                    /\ sinks' = Sunk(opened, use_syslog, now, recs)
                    /\ log_mtime' = LogMtimeAfterWrite(log_mtime, now)
                    /\ queue' = AfterLogWrite(queue, watch_dirs', log_mtime)
                    /\ pc' = "samplers"
                    /\ UNCHANGED exit_status
    /\ UNCHANGED <<now, cycle, log_interval, periodic_last_check, mtime, changes,
                   unreported, seen, polled, watch, poll, use_syslog, config, stop>>

\* The records of log_uptime, log_network_connections and log_free_inodes at
\* time t, on a machine booted at time 0 with no TCP connection, where
\* /proc and statfs("/") can be read.
SamplerRecords(t) ==
    <<LogRecord(LOG_INFO, "Uptime: " \o Dec(t \div 86400) \o " days, "
                  \o Dec((t % 86400) \div 3600) \o " hours, "
                  \o Dec((t % 3600) \div 60) \o " minutes ("
                  \o Dec(t) \o " seconds)"),
      LogRecord(LOG_INFO, "TCP network connections: total 0, established 0"),
      LogRecord(LOG_INFO, "Free inodes: 1000 out of 2000")>>

\* log_uptime, log_network_connections, log_free_inodes: each logs a record.
Samplers ==
    /\ pc = "samplers"
    /\ sinks' = Sunk(log_file, use_syslog, now, SamplerRecords(now))
    /\ log_mtime' = LogMtimeAfterWrite(log_mtime, now)
    /\ queue' = AfterLogWrite(queue, watch_dirs, log_mtime)
    /\ pc' = "watcher"
    /\ UNCHANGED <<now, cycle, log_interval, inotify_fd, watch_dirs,
                   periodic_last_check, mtime, changes, unreported, seen, polled,
                   watch, poll>>
    /\ UNCHANGED proc

(***************************************************************************)
(* check_directory_changes, given what read() delivers.                    *)
(***************************************************************************)
\* Whether the mask is of an event that changes the directory's st_mtime
\* (an entry added, removed or renamed).
ChangesDir(mask) ==
    \/ HasBit(mask, IN_CREATE)
    \/ HasBit(mask, IN_DELETE)
    \/ HasBit(mask, IN_MOVED_FROM)
    \/ HasBit(mask, IN_MOVED_TO)

\* The directories a record was logged for, for an event that changed them.
ReportedDirs(res) ==
    {d \in Dirs : \E k \in 1..Len(res.events) :
        /\ res.events[k].target = d
        /\ res.events[k].out # <<>>
        /\ ChangesDir(res.events[k].mask)}

\* The call's effects: res is what the loop did, rest what stays queued.
\* The records it logged are writes to the log file.
Watched(res, rest) ==
    \E out \in {AllOut(res.events)} :
    LET wrote == out # <<>>
    IN  /\ watch' = res
        /\ sinks' = Sunk(log_file, use_syslog, now, out)
        /\ log_mtime' = IF wrote THEN LogMtimeAfterWrite(log_mtime, now) ELSE log_mtime
        /\ queue' = IF wrote THEN AfterLogWrite(rest, watch_dirs, log_mtime) ELSE rest
        /\ unreported' = unreported \ ReportedDirs(res)

\* select() with a zero timeout on inotify_fd: whether it returns > 0.
SelectReadyAlways(q) == TRUE

SelectReady(q) == q # <<>>

\* if (inotify_fd < 0) return; select() with a zero timeout; read(); the loop.
\* read() returns when an event is queued, and blocks until then.
CheckDirectoryChanges ==
    /\ pc = "watcher"
    /\ pc' = "poll"
    /\ UNCHANGED <<now, cycle, log_interval, inotify_fd, watch_dirs,
                   periodic_last_check, mtime, changes, seen, polled, poll>>
    /\ UNCHANGED proc
    /\ IF inotify_fd < 0 \/ ~SelectReady(queue)
       THEN Watched(NoRead, queue)
       ELSE /\ queue # <<>>
            /\ \E n \in {FitCount(queue, BUFFER_SIZE)} :
               \E sent \in {SubSeq(queue, 1, n)} :
               \E mem \in {EncodeAll(sent)} :
               \E res \in {Drained(watch_dirs, sent, mem, Len(mem))} :
                   Watched(res, SubSeq(queue, n + 1, Len(queue)))

(***************************************************************************)
(* check_directory_changes_periodic.                                       *)
(***************************************************************************)
\* The records of one call, in the order of the loop over watch_dirs[].
RECURSIVE PollOutUpTo(_, _)
PollOutUpTo(out, n) == IF n = 0 THEN <<>> ELSE PollOutUpTo(out, n - 1) \o out[n]

PollOut(out) == PollOutUpTo(out, NUM_WATCH_DIRS)

CheckDirectoryChangesPeriodic ==
    /\ pc = "poll"
    /\ polled' = TRUE
    /\ IF RateLimited(now, periodic_last_check)
       THEN /\ poll' = [called |-> TRUE, ran |-> FALSE, first |-> ~polled,
                        at |-> now, last |-> periodic_last_check,
                        before |-> watch_dirs, prev |-> seen, st |-> mtime,
                        logst |-> log_mtime, out |-> [d \in Dirs |-> <<>>]]
            /\ sinks' = Sunk(log_file, use_syslog, now, <<>>)
            /\ UNCHANGED <<periodic_last_check, watch_dirs, seen, log_mtime, queue>>
       ELSE LET r == PollLoop(NUM_WATCH_DIRS, watch_dirs, now, mtime, log_mtime)
                wrote == \E d \in Dirs : r.out[d] # <<>>
            IN  /\ periodic_last_check' = now
                /\ sinks' = Sunk(log_file, use_syslog, now, PollOut(r.out))
                /\ watch_dirs' = r.tab
                /\ seen' = [d \in Dirs |-> IF StatOk(mtime[d]) THEN mtime[d] ELSE seen[d]]
                /\ log_mtime' = r.logmt
                /\ queue' = IF wrote THEN AfterLogWrite(queue, watch_dirs, log_mtime)
                            ELSE queue
                /\ poll' = [called |-> TRUE, ran |-> TRUE, first |-> ~polled,
                            at |-> now, last |-> periodic_last_check,
                            before |-> watch_dirs, prev |-> seen, st |-> mtime,
                            logst |-> PollLoop(LogDirIndex - 1, watch_dirs, now,
                                               mtime, log_mtime).logmt,
                            out |-> r.out]
    /\ pc' = "sleep"
    /\ UNCHANGED <<now, cycle, log_interval, inotify_fd, mtime, changes, unreported,
                   watch>>
    /\ UNCHANGED proc

\* sleep(log_interval), and the next pass of while (1).
Sleep ==
    /\ pc = "sleep"
    /\ cycle + 1 < MaxCycles
    /\ now' = now + log_interval
    /\ cycle' = cycle + 1
    /\ watch' = NoRead
    /\ poll' = NoPoll
    /\ sinks' = NoCalls
    /\ pc' = "samplers"
    /\ UNCHANGED <<log_interval, inotify_fd, watch_dirs, periodic_last_check, queue,
                   mtime, log_mtime, changes, unreported, seen, polled>>
    /\ UNCHANGED proc

(***************************************************************************)
(* Other processes, at any time after startup.  The kernel queues an event *)
(* for a directory whose watch was installed.                              *)
(***************************************************************************)
RunningSteps == {"samplers", "watcher", "poll", "sleep"}

Notify(q, d, mask, name) ==
    IF watch_dirs[d].wd >= 0 THEN Enqueue(q, Event(watch_dirs[d].wd, mask, name)) ELSE q

\* An entry is created in directory d: the directory's st_mtime is the time.
CreateEntry(d) ==
    /\ pc \in RunningSteps /\ changes < MaxChanges /\ StatOk(mtime[d])
    /\ mtime' = [mtime EXCEPT ![d] = now]
    /\ queue' = Notify(queue, d, IN_CREATE, OtherName)
    /\ unreported' = unreported \cup {d}
    /\ changes' = changes + 1
    /\ UNCHANGED <<pc, now, cycle, log_interval, inotify_fd, watch_dirs,
                   periodic_last_check, log_mtime, seen, polled, watch, poll>>
    /\ UNCHANGED <<proc, sinks>>

\* An entry of a watched directory d is written: st_mtime of d stays.
ModifyEntry(d) ==
    /\ pc \in RunningSteps /\ changes < MaxChanges /\ StatOk(mtime[d])
    /\ watch_dirs[d].wd >= 0
    /\ queue' = Notify(queue, d, IN_MODIFY, OtherName)
    /\ changes' = changes + 1
    /\ UNCHANGED <<pc, now, cycle, log_interval, inotify_fd, watch_dirs,
                   periodic_last_check, mtime, log_mtime, unreported, seen, polled,
                   watch, poll>>
    /\ UNCHANGED <<proc, sinks>>

\* Directory d is removed with what it holds: stat() fails from now on and
\* the kernel drops the watch with an IN_IGNORED event.
RemoveDir(d) ==
    /\ pc \in RunningSteps /\ changes < MaxChanges /\ StatOk(mtime[d])
    /\ mtime' = [mtime EXCEPT ![d] = 0 - 1]
    /\ log_mtime' = IF d = LogDirIndex THEN 0 - 1 ELSE log_mtime
    /\ queue' = Notify(queue, d, IN_IGNORED, <<>>)
    /\ changes' = changes + 1
    /\ UNCHANGED <<pc, now, cycle, log_interval, inotify_fd, watch_dirs,
                   periodic_last_check, unreported, seen, polled, watch, poll>>
    /\ UNCHANGED <<proc, sinks>>

\* The log file is unlinked (the daemon keeps writing to the open file).
RemoveLog ==
    /\ pc \in RunningSteps /\ changes < MaxChanges /\ StatOk(log_mtime)
    /\ log_mtime' = 0 - 1
    /\ mtime' = [mtime EXCEPT ![LogDirIndex] = now]
    /\ queue' = Notify(queue, LogDirIndex, IN_DELETE, LogFileName)
    /\ unreported' = unreported \cup {LogDirIndex}
    /\ changes' = changes + 1
    /\ UNCHANGED <<pc, now, cycle, log_interval, inotify_fd, watch_dirs,
                   periodic_last_check, seen, polled, watch, poll>>
    /\ UNCHANGED <<proc, sinks>>

FsChange ==
    \/ \E d \in Dirs : CreateEntry(d)
    \/ \E d \in Dirs : ModifyEntry(d)
    \/ \E d \in Dirs : RemoveDir(d)
    \/ RemoveLog

(***************************************************************************)
(* signal_handler for SIGTERM or SIGINT.  main installs it with its first  *)
(* two statements, so the signal is handled wherever main is.              *)
(***************************************************************************)
ShutdownRecord == LogRecord(LOG_INFO, "Termination signal received. Program is stopping.")

SignalHandler ==
    /\ pc # "terminated"
    /\ sinks' = Sunk(log_file, use_syslog, now, <<ShutdownRecord>>)
    /\ stop' = [taken |-> TRUE, from |-> pc, open |-> log_file, syslog |-> use_syslog,
                file |-> sinks'.file, sys |-> sinks'.sys]
    /\ log_mtime' = IF log_file THEN LogMtimeAfterWrite(log_mtime, now) ELSE log_mtime
    /\ log_file' = FALSE
    /\ exit_status' = 0
    /\ pc' = "terminated"
    /\ UNCHANGED <<now, cycle, log_interval, inotify_fd, watch_dirs,
                   periodic_last_check, queue, mtime, changes, unreported, seen,
                   polled, watch, poll, use_syslog, config, startup>>

Next ==
    \/ ReadConfigFile
    \/ Startup
    \/ Samplers
    \/ CheckDirectoryChanges
    \/ CheckDirectoryChangesPeriodic
    \/ Sleep
    \/ FsChange
    \/ SignalHandler

Spec == Init /\ [][Next]_vars

(***************************************************************************)
(* The loop under a burst: once, during the first pass of the loop, another *)
(* process creates BurstSize entries in /tmp at once, one more than a      *)
(* read() of BUFFER_SIZE bytes returns; each                               *)
(* name has NAME_MAX (255) bytes, filling a name field of sixteen times    *)
(* the header's size.  main is one thread and none of its calls waits, so  *)
(* each step of the loop is taken once it is reached.                      *)
(***************************************************************************)
LongNameLen == 16 * EVENT_HEADER_SIZE - 1

BurstSize == (BUFFER_SIZE \div (EVENT_HEADER_SIZE + LongNameLen + 1)) + 1

\* The k-th name: "a" repeated, and the k-th character from "A".
LongName(k) == [i \in 1..LongNameLen |-> IF i < LongNameLen THEN 97 ELSE 64 + k]

RECURSIVE BurstEvents(_, _)
BurstEvents(wd, k) ==
    IF k = 0 THEN <<>>
    ELSE Append(BurstEvents(wd, k - 1), Event(wd, IN_CREATE, LongName(k)))

Burst ==
    /\ pc \in RunningSteps /\ cycle = 0
    /\ changes = 0 /\ StatOk(mtime[TmpDirIndex])
    /\ watch_dirs[TmpDirIndex].wd >= 0
    /\ mtime' = [mtime EXCEPT ![TmpDirIndex] = now]
    /\ queue' = queue \o BurstEvents(watch_dirs[TmpDirIndex].wd, BurstSize)
    /\ unreported' = unreported \cup {TmpDirIndex}
    /\ changes' = changes + 1
    /\ UNCHANGED <<pc, now, cycle, log_interval, inotify_fd, watch_dirs,
                   periodic_last_check, log_mtime, seen, polled, watch, poll>>
    /\ UNCHANGED <<proc, sinks>>

NextLive ==
    \/ ReadConfigFile
    \/ Startup
    \/ Samplers
    \/ CheckDirectoryChanges
    \/ CheckDirectoryChangesPeriodic
    \/ Sleep
    \/ Burst
    \/ SignalHandler

SpecLive ==
    /\ Init /\ [][NextLive]_vars
    /\ WF_vars(Samplers)
    /\ WF_vars(CheckDirectoryChanges)
    /\ WF_vars(CheckDirectoryChangesPeriodic)
    /\ WF_vars(Sleep)

(***************************************************************************)
(* The decoder on injected buffers: read() delivers any well-formed buffer *)
(* of at most MaxEvents records, one of them drawn from every combination  *)
(* of watch descriptor, mask and name, the others from two fillers (one    *)
(* without a name, one with).                                              *)
(***************************************************************************)
KindBits == {IN_CREATE, IN_DELETE, IN_MODIFY, IN_MOVED_FROM, IN_MOVED_TO}

RECURSIVE SumOf(_)
SumOf(S) ==
    IF S = {} THEN 0
    ELSE LET x == CHOOSE y \in S : TRUE IN x + SumOf(S \ {x})

InjectedMasks ==
    {SumOf(S) : S \in (SUBSET KindBits) \ {{}}}
        \cup {IN_IGNORED, IN_Q_OVERFLOW, IN_CREATE + IN_ISDIR}

InjectedWds == Dirs \cup {0 - 1}

InjectedNames == {<<>>, OtherName, LogFileName}

InjectedEvents ==
    {Event(w, m, n) : w \in InjectedWds, m \in InjectedMasks, n \in InjectedNames}

FillerEvents == {Event(1, IN_MODIFY, <<>>), Event(1, IN_CREATE, OtherName)}

FillerSeqs == UNION {[1..k -> FillerEvents] : k \in 0..(MaxEvents - 1)}

InjectedBuffers ==
    {s \in {pre \o <<e>> \o post :
                pre \in FillerSeqs, e \in InjectedEvents, post \in FillerSeqs} :
        Len(s) <= MaxEvents}

InjectedRead ==
    /\ pc = "watcher"
    /\ \E evs \in InjectedBuffers :
        IF inotify_fd < 0
        THEN Watched(NoRead, queue)
        ELSE LET mem == EncodeAll(evs)
             IN  Watched(Drained(watch_dirs, evs, mem, Len(mem)), <<>>)
    /\ pc' = "poll"
    /\ UNCHANGED <<now, cycle, log_interval, inotify_fd, watch_dirs,
                   periodic_last_check, mtime, changes, seen, polled, poll>>
    /\ UNCHANGED proc

NextWatch ==
    \/ ReadConfigFile
    \/ Startup
    \/ Samplers
    \/ InjectedRead

SpecWatch == Init /\ [][NextWatch]_vars

(***************************************************************************)
(* The decoder on short reads: read() returns only the first `length`      *)
(* bytes of the records, and the rest of buffer[] holds what it held       *)
(* before: zeros, or the bytes an earlier read of the same records left.   *)
(***************************************************************************)
RawEvents ==
    {Event(1, IN_MODIFY, <<>>), Event(1, IN_CREATE, OtherName),
     Event(2, IN_DELETE, LogFileName)}

RawBuffers == UNION {[1..k -> RawEvents] : k \in 1..MaxEvents}

ShortRead ==
    /\ pc = "watcher"
    /\ inotify_fd >= 0
    /\ \E evs \in RawBuffers, held \in {"zeros", "earlier"} :
        LET full == EncodeAll(evs)
        IN  \E length \in 1..Len(full) :
                LET tail == IF held = "zeros" THEN Zeros(Len(full) - length)
                            ELSE SubSeq(full, length + 1, Len(full))
                    mem == SubSeq(full, 1, length) \o tail
                IN  Watched(Drained(watch_dirs, evs, mem, length), <<>>)
    /\ pc' = "poll"
    /\ UNCHANGED <<now, cycle, log_interval, inotify_fd, watch_dirs,
                   periodic_last_check, mtime, changes, seen, polled, poll>>
    /\ UNCHANGED proc

NextRaw ==
    \/ ReadConfigFile
    \/ Startup
    \/ Samplers
    \/ ShortRead

SpecRaw == Init /\ [][NextRaw]_vars

(***************************************************************************)
(* read_config on any configuration file of at most MaxLines lines.        *)
(***************************************************************************)
ReadAnyConfig == ReadConfigFrom(AllConfigFiles)

NextConfig == ReadAnyConfig

SpecConfig == Init /\ [][NextConfig]_vars

(***************************************************************************)
(* Properties of check_directory_changes.                                  *)
(***************************************************************************)
\* The passes of the decode loop of this call.
Passes == 1..Len(watch.events)

\* The event of pass k names the log file.
NamesOwnLog(k) == watch.events[k].len > 0 /\ watch.events[k].name = LogFileName

\* The entries whose watch was installed with the handle of pass k's event.
InstalledFor(k) ==
    {d \in Dirs : watch_dirs[d].wd >= 0 /\ watch_dirs[d].wd = watch.events[k].wd}

\* C1: an event with the handle of the log directory /var/log and the entry name
\* system_logger.log produces no log record, whatever its mask.
C1_OwnLogEventSuppressed ==
    \A k \in Passes :
        (watch.events[k].wd = watch_dirs[LogDirIndex].wd /\ NamesOwnLog(k))
            => watch.events[k].out = <<>>

\* C1 witness: a deletion of system_logger.log on the installed watch of /var/log
\* was decoded and logged nothing.
C1_Witness ==
    /\ watch.ran
    /\ \E k \in Passes :
        /\ LogDirIndex \in InstalledFor(k)
        /\ NamesOwnLog(k)
        /\ HasBit(watch.events[k].mask, IN_DELETE)
        /\ watch.events[k].out = <<>>

\* C2 (as claimed): an event is suppressed only if it is in /var/log and names
\* system_logger.log; every other event with the handle of an installed watch
\* produces exactly one record at info severity.
C2_SuppressionOnlyInLogDir ==
    \A k \in Passes :
        InstalledFor(k) # {} =>
            IF LogDirIndex \in InstalledFor(k) /\ NamesOwnLog(k)
            THEN watch.events[k].out = <<>>
            ELSE /\ Len(watch.events[k].out) = 1
                 /\ watch.events[k].out[1].priority = LOG_INFO

\* C3: on a well-formed buffer of N records the loop makes N passes, each pass
\* starts header size + declared name length after the one before, the cursor
\* ends at the length read, no byte at or past the length is read, and every
\* record's handle, mask and name are recovered.
C3_DecodingExact ==
    watch.ran =>
        /\ Len(watch.events) = Len(watch.sent)
        /\ watch.cursor = watch.length
        /\ watch.reach < watch.length
        /\ \A k \in Passes :
            /\ watch.events[k].wd = watch.sent[k].wd
            /\ watch.events[k].mask = watch.sent[k].mask
            /\ watch.events[k].name = watch.sent[k].name
            /\ watch.events[k].len = NameLen(watch.sent[k].name)
            /\ watch.events[k].at =
                 IF k = 1 THEN 0
                 ELSE watch.events[k - 1].at + EVENT_HEADER_SIZE
                        + NameLen(watch.sent[k - 1].name)

\* C3 witness: a buffer of two records, the first without a name and the second
\* with one, was decoded.
C3_Witness ==
    /\ watch.ran
    /\ Len(watch.sent) = 2
    /\ watch.sent[1].name = <<>>
    /\ watch.sent[2].name = OtherName
    /\ watch.events[2].at = EVENT_HEADER_SIZE
    /\ watch.cursor = 3 * EVENT_HEADER_SIZE

\* C4 (as claimed): whatever read() returned, no byte at an index >= the length
\* is read, and a record that does not lie wholly below the length is not
\* decoded.
C4_NeverReadsPastLength ==
    watch.ran =>
        /\ watch.reach < watch.length
        /\ \A k \in Passes :
            watch.events[k].at + EVENT_HEADER_SIZE + watch.events[k].len
                <= watch.length

\* The kinds in the order of precedence, with the words the record uses.
KindOrder ==
    <<[bit |-> IN_CREATE, word |-> "creation"],
      [bit |-> IN_DELETE, word |-> "deletion"],
      [bit |-> IN_MODIFY, word |-> "modification"],
      [bit |-> IN_MOVED_FROM, word |-> "moved from"],
      [bit |-> IN_MOVED_TO, word |-> "moved to"]>>

HasKind(mask) == \E n \in 1..Len(KindOrder) : HasBit(mask, KindOrder[n].bit)

FirstKind(mask) ==
    KindOrder[CHOOSE n \in 1..Len(KindOrder) :
                /\ HasBit(mask, KindOrder[n].bit)
                /\ \A m \in 1..(n - 1) : ~HasBit(mask, KindOrder[m].bit)].word

\* C5: a record logged for an event with at least one kind bit names the first
\* set kind in the order created, deleted, modified, moved-from, moved-to; its
\* text is "<path>: <kind> of file <name>" with a name and "<path>: <kind>"
\* without; CREATE of foo.txt on the handle of /tmp gives exactly one info record
\* "/tmp: creation of file foo.txt".
C5_KindPrecedenceAndText ==
    \A k \in Passes :
        LET ev == watch.events[k]
        IN  /\ (ev.out # <<>> /\ HasKind(ev.mask)) =>
                /\ Len(ev.out) = 1
                /\ ev.out[1].priority = LOG_INFO
                /\ ev.out[1].message =
                     IF ev.len > 0
                     THEN WatchPaths[ev.target] \o ": " \o FirstKind(ev.mask)
                            \o " of file " \o StrOf(ev.name)
                     ELSE WatchPaths[ev.target] \o ": " \o FirstKind(ev.mask)
            /\ (/\ ev.wd >= 0
                /\ ev.wd = watch_dirs[TmpDirIndex].wd
                /\ ev.mask = IN_CREATE
                /\ ev.name = OtherName) =>
                ev.out = <<[priority |-> LOG_INFO,
                            message |-> "/tmp: creation of file foo.txt"]>>

\* C5 witness: an event with the created and modified bits set, naming foo.txt
\* in /tmp, was logged as a creation.
C5_Witness ==
    \E k \in Passes :
        /\ watch.events[k].mask = IN_CREATE + IN_MODIFY
        /\ watch.events[k].target = TmpDirIndex
        /\ watch.events[k].out =
             <<[priority |-> LOG_INFO, message |-> "/tmp: creation of file foo.txt"]>>

(***************************************************************************)
(* Properties of check_directory_changes_periodic.  They are stated of the *)
(* state right after a call (pc = "sleep"), where poll holds what the call *)
(* saw: the table before it, the stat() results and the records.           *)
(***************************************************************************)
AfterPoll == pc = "sleep" /\ poll.called

AfterComparing == AfterPoll /\ poll.ran

\* The fallback's own-log rule caught entry d in this run.
CaughtAsOwnLog(d) ==
    /\ d = LogDirIndex
    /\ StatOk(poll.logst)
    /\ poll.st[d] = poll.logst
    /\ poll.before[d].last_check > 0

ChangeRecord(d) ==
    <<[priority |-> LOG_INFO,
       message |-> "Changes detected in directory: " \o WatchPaths[d]]>>

\* C6 (as claimed): the fallback logs "Changes detected in directory" for a
\* directory only if the latest change of its modification time is one
\* check_directory_changes has logged no record for.
C6_NoSecondReport ==
    AfterComparing => \A d \in Dirs : poll.out[d] # <<>> => d \in unreported

\* C7: a directory the fallback compares twice in a row with the same
\* modification time gets no record at the second comparison, and its
\* last_check stays as it was.
C7_IdempotentBaseline ==
    AfterComparing =>
        \A d \in Dirs :
            (StatOk(poll.st[d]) /\ poll.prev[d] = poll.st[d]) =>
                /\ poll.out[d] = <<>>
                /\ watch_dirs[d].last_check = poll.before[d].last_check

\* C7 witness: a comparing run met a directory with the modification time the
\* run before had met.
C7_Witness ==
    /\ AfterComparing
    /\ \E d \in Dirs : StatOk(poll.st[d]) /\ poll.prev[d] = poll.st[d]

\* C8 (as claimed): the first call after startup compares; a call less than 30
\* seconds after the last comparing call changes nothing and logs nothing; two
\* comparing runs are at least 30 seconds apart.
C8_RateLimit ==
    AfterPoll =>
        /\ poll.first => poll.ran
        /\ (~poll.first /\ poll.at - poll.last < POLL_PERIOD) =>
            /\ ~poll.ran
            /\ \A d \in Dirs : poll.out[d] = <<>>
            /\ watch_dirs = poll.before
            /\ periodic_last_check = poll.last
        /\ (poll.ran /\ ~poll.first) => poll.at - poll.last >= POLL_PERIOD

\* C9: in a comparing run, a directory stat() succeeds on and the own-log rule
\* does not catch gets exactly one info record "Changes detected in directory:
\* <path>" if its modification time is greater than the stored last_check and
\* that is > 0, and no record otherwise; its last_check becomes the modification
\* time either way.
C9_ReportingRule ==
    AfterComparing =>
        \A d \in Dirs :
            (StatOk(poll.st[d]) /\ ~CaughtAsOwnLog(d)) =>
                /\ poll.out[d] =
                     IF /\ poll.st[d] > poll.before[d].last_check
                        /\ poll.before[d].last_check > 0
                     THEN ChangeRecord(d) ELSE <<>>
                /\ watch_dirs[d].last_check = poll.st[d]

\* C9 witness: a comparing run logged the record for a directory and advanced
\* its last_check, and left another directory, unchanged, without a record.
C9_Witness ==
    /\ AfterComparing
    /\ \E d, e \in Dirs :
        /\ poll.out[d] = ChangeRecord(d)
        /\ watch_dirs[d].last_check = poll.st[d]
        /\ poll.before[d].last_check < poll.st[d]
        /\ StatOk(poll.st[e]) /\ poll.out[e] = <<>>

\* C10: for /var/log, when its modification time equals the log file's and its
\* last_check is > 0, the run logs no record and sets last_check to the
\* directory's modification time; no other directory is treated so, whatever
\* its modification time.
C10_OwnLogRule ==
    AfterComparing =>
        /\ CaughtAsOwnLog(LogDirIndex) =>
            /\ poll.out[LogDirIndex] = <<>>
            /\ watch_dirs[LogDirIndex].last_check = poll.st[LogDirIndex]
        /\ \A d \in Dirs \ {LogDirIndex} :
            (/\ StatOk(poll.st[d])
             /\ poll.st[d] > poll.before[d].last_check
             /\ poll.before[d].last_check > 0) => poll.out[d] = ChangeRecord(d)

\* C10 witness: /var/log had changed since its last_check, with the log file's
\* modification time, and the run logged nothing for it and advanced last_check.
C10_Witness ==
    /\ AfterComparing
    /\ CaughtAsOwnLog(LogDirIndex)
    /\ poll.st[LogDirIndex] > poll.before[LogDirIndex].last_check
    /\ poll.out[LogDirIndex] = <<>>
    /\ watch_dirs[LogDirIndex].last_check = poll.st[LogDirIndex]

(***************************************************************************)
(* Properties of read_config.                                              *)
(***************************************************************************)
\* read_config has run.
ConfigRead == startup.configured

\* The interval the file's last line stating one in range leaves, from dflt.
RECURSIVE LastStated(_, _)
LastStated(file, dflt) ==
    IF file = <<>> THEN dflt
    ELSE LastStated(Tail(file), IF Head(file).stated > 0 THEN Head(file).stated ELSE dflt)

\* C11 (as claimed): after read_config has processed the lines of the
\* configuration file, the interval is within (0, 3600] and is the value of
\* the last LOG_INTERVAL line stating a value in that range, LOG_INTERVAL
\* (5) if there is none: a value out of the range leaves the interval as it
\* was.
C11_ConfigClamping ==
    ConfigRead =>
        /\ log_interval > 0 /\ log_interval <= 3600
        /\ log_interval = LastStated(config, LOG_INTERVAL)

(***************************************************************************)
(* Properties of log_message.                                              *)
(***************************************************************************)
\* The calls of log_message of the latest step.
Calls == 1..Len(sinks.calls)

LevelOf(priority) ==
    CASE priority = LOG_ERR -> "ERROR"
      [] priority = LOG_WARNING -> "WARNING"
      [] priority = LOG_DEBUG -> "DEBUG"
      [] OTHER -> "INFO"

\* line is "[", a time stamp of 19 characters, and "] [LEVEL] [actor] text".
FormattedLine(line, rec) ==
    /\ SubSeq(line, 1, 1) = "["
    /\ SubSeq(line, 21, Len(line)) =
           "] [" \o LevelOf(rec.priority) \o "] [" \o Username \o "] "
              \o rec.message \o "\n"

\* C12: every call of log_message writes one line
\* "[timestamp] [LEVEL] [actor] text" to the log file if and only if log_file
\* is open, and gives "[actor] text" with the call's priority to syslog if
\* and only if use_syslog is set; neither decision depends on the other.
C12_DualSink ==
    /\ Len(sinks.file) = IF sinks.open THEN Len(sinks.calls) ELSE 0
    /\ Len(sinks.sys) = IF sinks.syslog THEN Len(sinks.calls) ELSE 0
    /\ \A k \in Calls :
        /\ sinks.open => FormattedLine(sinks.file[k], sinks.calls[k])
        /\ sinks.syslog =>
              sinks.sys[k] = [priority |-> sinks.calls[k].priority,
                              text |-> "[" \o Username \o "] " \o sinks.calls[k].message]

\* C12 witness: a call made while log_file is NULL and use_syslog is set
\* wrote nothing to the file and gave its record to syslog.
C12_Witness ==
    /\ Calls # {}
    /\ ~sinks.open /\ sinks.syslog
    /\ sinks.file = <<>>
    /\ Len(sinks.sys) = Len(sinks.calls)

(***************************************************************************)
(* Properties of main and signal_handler.                                  *)
(***************************************************************************)
Terminated == pc = "terminated"

NoWatchInstalled == inotify_fd < 0 /\ \A d \in Dirs : watch_dirs[d].wd < 0

\* C13: if open_log_file fails the process ends with exit status 1, having
\* installed no watch, logged no record and never entered the loop; every
\* other run that ends, ends in signal_handler with exit status 0.
C13_OpenFailureExit ==
    /\ (exit_status # 0 - 1) <=> Terminated
    /\ startup.opened = "failed" =>
          /\ Terminated /\ exit_status = 1
          /\ NoWatchInstalled
          /\ startup.out = <<>> /\ sinks = NoCalls /\ log_mtime = OldMtime
          /\ cycle = 0 /\ ~watch.ran /\ ~poll.called
          /\ ~stop.taken
    /\ (Terminated /\ startup.opened # "failed") => (stop.taken /\ exit_status = 0)

\* C13 witness: the log file could not be opened and main returned 1.
C13_Witness == startup.opened = "failed" /\ Terminated /\ exit_status = 1

\* C14 (as claimed): signal_handler is entered only from the loop, never
\* while main is still starting, and a run that ends without it ends at the
\* failure of open_log_file; so every run goes starting, running, stopping,
\* terminated or starting, terminated.
C14_Lifecycle ==
    /\ stop.taken => stop.from \in RunningSteps
    /\ (Terminated /\ ~stop.taken) => startup.opened = "failed"

\* C15 (as claimed): when signal_handler has run, the shutdown message was
\* written to the log file, and to syslog if use_syslog is set, while
\* log_file was open; after that log_file was closed and the process exited
\* with status 0, and no later record was written.
C15_OrderedShutdown ==
    stop.taken =>
        /\ stop.open
        /\ Len(stop.file) = 1 /\ FormattedLine(stop.file[1], ShutdownRecord)
        /\ stop.syslog => Len(stop.sys) = 1
        /\ ~log_file /\ Terminated /\ exit_status = 0
        /\ sinks.calls = <<ShutdownRecord>>

(***************************************************************************)
(* Properties of init_directory_monitoring.                                *)
(***************************************************************************)
\* main reached the loop although inotify_init failed.
Degraded == startup.opened = "yes" /\ ~startup.inotify

Warnings(recs) == {k \in 1..Len(recs) : recs[k].priority = LOG_WARNING}

\* C16: if inotify_init fails, main logs exactly one warning for it before
\* the loop; afterwards every call of check_directory_changes reads nothing
\* and logs nothing, and check_directory_changes_periodic still compares
\* every directory it can stat, logs its changes and moves its last_check.
C16_DegradedChannel ==
    Degraded =>
        /\ pc \in RunningSteps \/ stop.taken
        /\ Cardinality(Warnings(startup.out)) = 1
        /\ \E k \in Warnings(startup.out) :
              startup.out[k].message =
                  "Failed to initialize directory monitoring: Too many open files"
        /\ NoWatchInstalled
        /\ watch = NoRead
        /\ pc = "poll" => sinks.calls = <<>>
        /\ AfterPoll => poll.ran = ~RateLimited(poll.at, poll.last)
        /\ AfterComparing =>
              \A d \in Dirs :
                  (StatOk(poll.st[d]) /\ ~CaughtAsOwnLog(d)) =>
                      /\ poll.out[d] =
                           IF /\ poll.st[d] > poll.before[d].last_check
                              /\ poll.before[d].last_check > 0
                           THEN ChangeRecord(d) ELSE <<>>
                      /\ watch_dirs[d].last_check = poll.st[d]

\* C16 witness: with inotify_init failed, check_directory_changes did nothing
\* in this pass and the fallback reported a change of a directory.
C16_Witness ==
    /\ Degraded /\ AfterComparing
    /\ watch = NoRead
    /\ \E d \in Dirs : poll.out[d] = ChangeRecord(d)

\* C17 (as claimed): for every directory whose inotify_add_watch failed,
\* main logged a warning or error record before the loop, the directory's
\* wd stayed -1, and main went on to the loop.
C17_WatchFailureLogged ==
    startup.opened = "yes" =>
        \A d \in Dirs \ startup.ok :
            /\ \E k \in 1..Len(startup.out) :
                  startup.out[k].priority \in {LOG_WARNING, LOG_ERR}
            /\ watch_dirs[d].wd = 0 - 1
            /\ pc \in RunningSteps \/ stop.taken

(***************************************************************************)
(* Properties of the loop.                                                 *)
(***************************************************************************)
\* A step of the loop goes to the step after it, or to the signal handler.
InOrder ==
    /\ pc = "samplers" => pc' \in {"samplers", "watcher", "terminated"}
    /\ pc = "watcher" => pc' \in {"watcher", "poll", "terminated"}
    /\ pc = "poll" => pc' \in {"poll", "sleep", "terminated"}
    /\ pc = "sleep" => pc' \in {"sleep", "samplers", "terminated"}

\* check_directory_changes read at most once, at most BUFFER_SIZE bytes, and
\* only events that were pending.
OneRead ==
    /\ watch.ran => watch.sent # <<>> /\ watch.length <= BUFFER_SIZE
    /\ ~watch.ran => watch = NoRead

\* C18: in every pass the samplers run, then check_directory_changes, then
\* check_directory_changes_periodic, then the sleep; check_directory_changes
\* reads at most once and not at all when nothing is pending; so whatever is
\* pending, a pass that has begun reaches the sleep, and the sleep is
\* followed by the samplers of the next pass (unless a signal ends the run).
C18_NoStarvation ==
    /\ [][InOrder]_vars
    /\ []OneRead
    /\ (pc \in {"samplers", "watcher", "poll"}) ~> (pc \in {"sleep", "terminated"})
    /\ (pc = "sleep" /\ cycle + 1 < MaxCycles) ~> (pc \in {"samplers", "terminated"})

\* C18 witness: the pass reached the sleep after one read that left events
\* of the burst in the kernel's queue.
C18_Witness ==
    /\ pc = "sleep"
    /\ watch.ran
    /\ \E k \in 1..Len(queue) : queue[k].name = LongName(BurstSize)

(***************************************************************************)
(* Properties of the records of check_directory_changes.                   *)
(***************************************************************************)
\* C19 (as claimed): a pass logs at most one record; it logs one only for an
\* entry whose watch was installed and whose wd equals the event's wd, and
\* the record names that entry's path; an event with wd -1 (queue overflow)
\* and an event whose wd is no installed entry's get no record.
C19_Attribution ==
    \A k \in Passes :
        /\ Len(watch.events[k].out) <= 1
        /\ watch.events[k].out # <<>> =>
              /\ watch.events[k].target \in InstalledFor(k)
              /\ HasPrefix(watch.events[k].out[1].message,
                           WatchPaths[watch.events[k].target] \o ": ")
        /\ watch.events[k].wd = 0 - 1 => watch.events[k].out = <<>>
        /\ InstalledFor(k) = {} => watch.events[k].out = <<>>

\* C20 (as claimed): a record check_directory_changes logs with kind K is
\* for an event whose mask has the bit of K set; an event whose mask has
\* none of the five kind bits is reported as none of the five kinds.
C20_KindBackedByMask ==
    \A k \in Passes :
        watch.events[k].out # <<>> =>
            \E n \in 1..Len(KindOrder) :
                /\ HasPrefix(watch.events[k].out[1].message,
                             WatchPaths[watch.events[k].target] \o ": "
                                 \o KindOrder[n].word)
                /\ HasBit(watch.events[k].mask, KindOrder[n].bit)

====
